---- MODULE Spec2Model ----
(***************************************************************************)
(* RDRSRonDBConnection: the RonDB cluster connection and its pool of Ndb   *)
(* objects (rdrs_rondb_connection.cpp).  Threads: client threads, which   *)
(* call GetNdbObject and ReturnNDBObjectToPool and one of which, the       *)
(* application, also calls Connect, GetStats, Shutdown and Reconnect, and  *)
(* the reconnection threads started by Reconnect (ReconnectHandler).       *)
(*                                                                         *)
(* Granularity: a step is one critical section, from its first             *)
(* NdbMutex_Lock to its last NdbMutex_Unlock.  Every section takes its     *)
(* mutexes in the order connectionMutex, connectionInfoMutex and blocks on *)
(* nothing else while it holds one, so a section is enabled when the       *)
(* mutexes it takes are free and leaves them free.  SpecLocks runs the     *)
(* same methods at the granularity of the mutex calls.                     *)
(***************************************************************************)
EXTENDS Integers, Sequences, FiniteSets, TLC

\* ---- bounds of the model ------------------------------------------------
NumClients == 2
MaxWorkers == 2
MaxNdbObjects == 2
MaxConnections == 2
MaxCalls == 1
DrainTicks == 2

\* ---- threads ------------------------------------------------------------
Clients == 1..NumClients
Workers == (NumClients + 1)..(NumClients + MaxWorkers)
Threads == Clients \cup Workers
NoThread == NumClients + MaxWorkers + 1

\* ---- values -------------------------------------------------------------
DISCONNECTED == "DISCONNECTED"
CONNECTED == "CONNECTED"
SUCCESS == "SUCCESS"
SERVER_ERROR == "SERVER_ERROR"
RS_OK == "RS_OK"
ERROR_002 == "ERROR_002"
ERROR_003 == "ERROR_003"
ERROR_004 == "ERROR_004"
ERROR_033 == "ERROR_033"
ERROR_034 == "ERROR_034"
ERROR_036 == "ERROR_036"
NoStatus == "none"
UnknownResultError == "UnknownResultError"
nullptr == 0
\* A pointer value that is the address of no Ndb: what is read from freed
\* memory
NotAnNdb == -1

\* The RS_Status a client passes to ReturnNDBObjectToPool: a null pointer,
\* or a status with an http_code and an NdbError classification.
NullStatus == [isNull |-> TRUE, http_code |-> SUCCESS, classification |-> "NoError"]
ReleaseStatuses ==
    {NullStatus} \cup
    [isNull : {FALSE}, http_code : {SUCCESS, SERVER_ERROR},
     classification : {"NoError", "TemporaryError", UnknownResultError}]

VARIABLES
    stats,                  \* RonDB_Stats, under connectionInfoMutex
    ndbConnection,          \* Ndb_cluster_connection*: nullptr or a connection id
    connections,            \* number of Ndb_cluster_connection constructed (ids 1..connections)
    availableNdbObjects,    \* std::list<Ndb*>
    allAvailableNdbObjects, \* std::list<Ndb*>
    ndbObjects,             \* heap of Ndb objects: address -> [conn, deleted]
    reconnectionThread,     \* NdbThread*: nullptr or a reconnection thread
    connectionMutex,        \* holder of connectionMutex, or NoThread
    connectionInfoMutex,    \* holder of connectionInfoMutex, or NoThread
    pc,                     \* per thread: where it is
    held,                   \* per client: the Ndb* it got from GetNdbObject and has not returned
    relStatus,              \* per client: the RS_Status* of its ReturnNDBObjectToPool call, while it is in Reconnect
    local,                  \* per thread in Shutdown: end, timeElapsed, allNDBObjectsCountedFor
    calls,                  \* Connect, Shutdown, Reconnect, GetStats calls made by clients
    returned,               \* the method return made by the last step, or NoReturn
    aborted                 \* the process aborted (require failed, or memory misuse)

vars == <<stats, ndbConnection, connections, availableNdbObjects,
          allAvailableNdbObjects, ndbObjects, reconnectionThread,
          connectionMutex, connectionInfoMutex, pc, held, relStatus, local,
          calls, returned, aborted>>

\* ---- constructor (lines 34-63) ------------------------------------------
InitStats ==
    [ndb_objects_available |-> 0, ndb_objects_count |-> 0,
     ndb_objects_created |-> 0, ndb_objects_deleted |-> 0,
     is_reconnection_in_progress |-> FALSE, is_shutdown |-> FALSE,
     is_shutting_down |-> FALSE, connection_state |-> DISCONNECTED]

\* An address of the heap at which no Ndb lives: never allocated, or deleted
NoNdb == [conn |-> nullptr, deleted |-> TRUE]
NdbAddresses == 1..MaxNdbObjects

InitLocal == [end |-> FALSE, timeElapsed |-> 0, allNDBObjectsCountedFor |-> FALSE]

\* A method return: who returned from what with which RS_Status; ndb is the
\* Ndb* of GetNdbObject and ReturnNDBObjectToPool, end the argument of
\* Shutdown, reconnect the status of the Reconnect call made inside
\* GetNdbObject or ReturnNDBObjectToPool.
Ret(t, method, status, ndb, end, reconnect) ==
    [thread |-> t, method |-> method, status |-> status, ndb |-> ndb,
     end |-> end, reconnect |-> reconnect]
NoReturn == Ret(NoThread, "none", NoStatus, nullptr, FALSE, NoStatus)

Init ==
    /\ stats = InitStats
    /\ ndbConnection = nullptr
    /\ connections = 0
    /\ availableNdbObjects = <<>>
    /\ allAvailableNdbObjects = <<>>
    /\ ndbObjects = [h \in NdbAddresses |-> NoNdb]
    /\ reconnectionThread = nullptr
    /\ connectionMutex = NoThread
    /\ connectionInfoMutex = NoThread
    /\ pc = [t \in Threads |-> "idle"]
    /\ held = [t \in Clients |-> nullptr]
    /\ relStatus = [t \in Clients |-> NullStatus]
    /\ local = [t \in Threads |-> InitLocal]
    /\ calls = 0
    /\ returned = NoReturn
    /\ aborted = FALSE

\* ---- helpers ------------------------------------------------------------
At(t, label) == ~aborted /\ pc[t] = label
Goto(t, label) == pc' = [pc EXCEPT ![t] = label]
CanLock(m) == m = NoThread
\* The application calls Connect, Shutdown, Reconnect and GetStats from one
\* of the client threads, while the budget of such calls lasts; the calls
\* run against the GetNdbObject and ReturnNDBObjectToPool calls of the
\* other clients and against the reconnection threads.
Application == CHOOSE c \in Clients : \A d \in Clients : c <= d
CanCall(t) ==
    /\ ~aborted
    /\ t = Application
    /\ pc[t] = "idle"
    /\ calls < MaxCalls
\* The process aborts in this step
Abort ==
    /\ aborted' = TRUE
    /\ returned' = NoReturn

\* Smallest idle reconnection thread slot (the thread NdbThread_Create starts)
IdleWorkers == {w \in Workers : pc[w] = "idle"}
FreshWorker == CHOOSE w \in IdleWorkers : \A v \in IdleWorkers : w <= v

\* std::list operations used on the two pools
PushBack(list, x) == Append(list, x)
PopFront(list) == Tail(list)
Front(list) == Head(list)

\* ---- GetNdbObject -------------------------------------------------------
\* Lines 130-147: what GetNdbObject does with its snapshot of the flags
GetNdbObject_Decide(st) ==
    IF st.is_shutdown \/ st.is_shutting_down THEN "reject_shutdown"
    ELSE IF st.connection_state # CONNECTED
         THEN IF ~st.is_reconnection_in_progress THEN "reconnect" ELSE "reject_state"
         ELSE "proceed"

\* Lines 119-147: the snapshot under connectionInfoMutex and the early returns
GetNdbObject_Snapshot(c) ==
    /\ At(c, "idle")
    /\ CanLock(connectionInfoMutex)
    /\ LET d == GetNdbObject_Decide(stats) IN
       CASE d = "reject_shutdown" ->
              /\ returned' = Ret(c, "GetNdbObject", ERROR_034, nullptr, FALSE, NoStatus)
              /\ UNCHANGED pc
         [] d = "reject_state" ->
              /\ returned' = Ret(c, "GetNdbObject", ERROR_033, nullptr, FALSE, NoStatus)
              /\ UNCHANGED pc
         [] d = "reconnect" -> Goto(c, "get_reconnect") /\ returned' = NoReturn
         [] d = "proceed" -> Goto(c, "get_body") /\ returned' = NoReturn
    /\ UNCHANGED <<stats, ndbConnection, connections, availableNdbObjects,
                   allAvailableNdbObjects, ndbObjects, reconnectionThread,
                   connectionMutex, connectionInfoMutex, held, local, calls, aborted, relStatus>>

\* Lines 165-166: reuse the front of availableNdbObjects
GetNdbObject_Reuse(c) ==
    /\ availableNdbObjects # <<>>
    /\ held' = [held EXCEPT ![c] = Front(availableNdbObjects)]
    /\ availableNdbObjects' = PopFront(availableNdbObjects)
    /\ Goto(c, "holding")
    /\ returned' = Ret(c, "GetNdbObject", RS_OK, Front(availableNdbObjects), FALSE, NoStatus)
    /\ UNCHANGED <<stats, allAvailableNdbObjects, ndbObjects, aborted>>

\* A count of the created Ndb objects that leaves ndb_objects_created alone
GetNdbObject_Count_CountOnly(st) ==
    [st EXCEPT !.ndb_objects_count = @ + 1]

\* Lines 161-162: the counters, bumped whatever init returned
GetNdbObject_Count(st) ==
    [st EXCEPT !.ndb_objects_created = @ + 1, !.ndb_objects_count = @ + 1]

\* The addresses operator new may return for an Ndb: those at which no Ndb
\* lives, the address of a deleted Ndb included, whoever still has a pointer
\* to it
FreeAddresses(heap) == {h \in DOMAIN heap : heap[h].deleted}

\* Lines 153-163: new Ndb(ndbConnection) at address h, init(), counters,
\* push_back.  retCode is what Ndb::init returns.  On retCode != 0 the code runs
\* "delete ndb_object" on the Ndb** parameter: it frees the caller's
\* variable, not the Ndb, which stays alive.  That is undefined behaviour:
\* the allocator aborts the process (crash; a variable on the stack or
\* inside another object), or it frees the variable (one allocated on its
\* own).  Line 163 then reads *ndb_object, freed memory: listed, the value
\* it pushes, is the Ndb* h still, or whatever the allocator left there, the
\* address of no Ndb; in that case the Ndb at h is in no list.
GetNdbObject_Create(c, h, retCode, crash, listed) ==
    /\ availableNdbObjects = <<>>
    /\ h \in FreeAddresses(ndbObjects)
    /\ ndbObjects' = [ndbObjects EXCEPT ![h] = [conn |-> ndbConnection, deleted |-> FALSE]]
    /\ IF retCode # 0 /\ crash
       THEN /\ Abort
            /\ UNCHANGED <<stats, allAvailableNdbObjects, pc, held>>
       ELSE /\ UNCHANGED aborted
            /\ stats' = GetNdbObject_Count(stats)
            /\ allAvailableNdbObjects' = PushBack(allAvailableNdbObjects, listed)
            /\ IF retCode # 0
               THEN /\ Goto(c, "idle")
                    /\ returned' = Ret(c, "GetNdbObject", ERROR_004, h, FALSE, NoStatus)
                    /\ UNCHANGED held
               ELSE /\ Goto(c, "holding")
                    /\ held' = [held EXCEPT ![c] = h]
                    /\ returned' = Ret(c, "GetNdbObject", RS_OK, h, FALSE, NoStatus)
    /\ UNCHANGED availableNdbObjects

\* Lines 148-171: the section under connectionMutex and connectionInfoMutex
GetNdbObject_Body(c) ==
    /\ At(c, "get_body")
    /\ CanLock(connectionMutex)
    /\ CanLock(connectionInfoMutex)
    /\ \/ GetNdbObject_Reuse(c)
       \/ \E h \in NdbAddresses : \E retCode \in {0, -1} : \E crash \in BOOLEAN :
          \E listed \in {h, NotAnNdb} :
            /\ retCode = 0 => ~crash /\ listed = h
            /\ crash => listed = h
            /\ GetNdbObject_Create(c, h, retCode, crash, listed)
    /\ UNCHANGED <<ndbConnection, connections, reconnectionThread,
                   connectionMutex, connectionInfoMutex, local, calls, relStatus>>

\* ---- ReturnNDBObjectToPool ----------------------------------------------
\* A test of the classification alone, whatever the http_code
TriggersReconnect_AnyCode(status) ==
    /\ ~status.isNull
    /\ status.classification = UnknownResultError

\* Lines 185-188: does the status make ReturnNDBObjectToPool call Reconnect
TriggersReconnect(status) ==
    /\ ~status.isNull
    /\ status.http_code # SUCCESS
    /\ status.classification = UnknownResultError

\* Lines 176-193.  The push_back is the section under connectionMutex; the
\* decision to call Reconnect reads only the caller's status.
ReturnNDBObjectToPool(c, status) ==
    /\ At(c, "holding")
    /\ CanLock(connectionMutex)
    /\ availableNdbObjects' = PushBack(availableNdbObjects, held[c])
    /\ held' = [held EXCEPT ![c] = nullptr]
    /\ IF TriggersReconnect(status)
       THEN /\ Goto(c, "ret_reconnect")
            /\ relStatus' = [relStatus EXCEPT ![c] = status]
            /\ returned' = NoReturn
       ELSE /\ Goto(c, "idle")
            /\ returned' = Ret(c, "ReturnNDBObjectToPool", NoStatus, held[c], FALSE, NoStatus)
            /\ UNCHANGED relStatus
    /\ UNCHANGED <<stats, ndbConnection, connections, allAvailableNdbObjects,
                   ndbObjects, reconnectionThread, connectionMutex,
                   connectionInfoMutex, local, calls, aborted>>

\* ---- Reconnect ----------------------------------------------------------
\* Who may be at the entry of Reconnect: GetNdbObject (line 139),
\* ReturnNDBObjectToPool (line 191), or a client calling the public method.
Reconnect_Entry(t) ==
    \/ t \in Clients /\ ~aborted /\ pc[t] \in {"get_reconnect", "ret_reconnect"}
    \/ CanCall(t)

\* A Reconnect that never finds a reconnection in progress
Reconnect_InProgress_Unseen(st) == FALSE

\* Line 356: does Reconnect find a reconnection in progress
Reconnect_InProgress(st) == st.is_reconnection_in_progress

\* The return that follows Reconnect returning status: GetNdbObject ignores
\* it and returns ERROR_033 (line 145), ReturnNDBObjectToPool is void, the
\* client that called Reconnect gets the status.
AfterReconnect(t, status) ==
    CASE pc[t] = "get_reconnect" ->
           Ret(t, "GetNdbObject", ERROR_033, nullptr, FALSE, status)
      [] pc[t] = "ret_reconnect" ->
           Ret(t, "ReturnNDBObjectToPool", NoStatus, nullptr, FALSE, status)
      [] OTHER -> Ret(t, "Reconnect", status, nullptr, FALSE, status)

\* Lines 364-377: the flag is set, the thread is created (spawned: whether
\* NdbThread_Create returned a thread)
Reconnect_Spawn(t, spawned) ==
    /\ stats' = [stats EXCEPT !.is_reconnection_in_progress = TRUE]
    /\ IF spawned
       THEN /\ IdleWorkers # {}
            /\ reconnectionThread' = FreshWorker
            /\ pc' = [pc EXCEPT ![t] = "idle", ![FreshWorker] = "h_begin"]
       ELSE /\ reconnectionThread' = nullptr
            /\ pc' = [pc EXCEPT ![t] = "idle"]
    /\ returned' = AfterReconnect(t, RS_OK)

\* Lines 352-381, the section under connectionMutex and connectionInfoMutex
Reconnect(t) ==
    /\ Reconnect_Entry(t)
    /\ CanLock(connectionMutex)
    /\ CanLock(connectionInfoMutex)
    /\ calls' = IF pc[t] = "idle" THEN calls + 1 ELSE calls
    /\ relStatus' = [relStatus EXCEPT ![t] = NullStatus]
    /\ IF Reconnect_InProgress(stats)
       THEN /\ Goto(t, "idle")
            /\ returned' = AfterReconnect(t, ERROR_036)
            /\ UNCHANGED <<stats, reconnectionThread>>
       ELSE \E spawned \in BOOLEAN : Reconnect_Spawn(t, spawned)
    /\ UNCHANGED <<ndbConnection, connections, availableNdbObjects,
                   allAvailableNdbObjects, ndbObjects, connectionMutex,
                   connectionInfoMutex, held, local, aborted>>

\* ---- Connect ------------------------------------------------------------
\* Who may be at the entry of Connect: a reconnection thread after its
\* Shutdown(false) (line 327), or a client calling the public method,
\* whatever the state of the pool.
Connect_Entry(t) ==
    \/ t \in Workers /\ ~aborted /\ pc[t] = "h_connect"
    \/ CanCall(t)

\* Connect returns status: to the client, or to ReconnectHandler, which
\* goes on to clear the flag and to return (lines 328-341).
Connect_Return(t, status) ==
    /\ pc' = [pc EXCEPT ![t] = IF t \in Clients THEN "idle"
                               ELSE IF status = RS_OK THEN "h_done" ELSE "h_failed"]
    /\ returned' = Ret(t, "Connect", status, nullptr, FALSE, NoStatus)

\* Lines 66-76.  Line 66 reads connection_string, which Shutdown(true) has
\* freed once is_shutdown is set: a read of freed memory, which either
\* crashes or goes unnoticed.
Connect_Check(t) ==
    /\ Connect_Entry(t)
    /\ CanLock(connectionInfoMutex)
    /\ calls' = IF t \in Clients THEN calls + 1 ELSE calls
    /\ \E crash \in BOOLEAN :
         /\ crash => stats.is_shutdown
         /\ IF crash
            THEN Abort /\ UNCHANGED pc
            ELSE IF stats.is_shutdown \/ stats.is_shutting_down
                 THEN Connect_Return(t, ERROR_034) /\ UNCHANGED aborted
                 ELSE IF stats.connection_state = CONNECTED
                      THEN Abort /\ UNCHANGED pc
                      ELSE /\ Goto(t, "connect_conn")
                           /\ returned' = NoReturn
                           /\ UNCHANGED aborted
    /\ UNCHANGED <<stats, ndbConnection, connections, availableNdbObjects,
                   allAvailableNdbObjects, ndbObjects, reconnectionThread,
                   connectionMutex, connectionInfoMutex, held, local, relStatus>>

\* What Connect returns for the driver's outcome (lines 85-100)
Connect_Status(outcome) ==
    CASE outcome = "connect_failed" -> ERROR_002
      [] outcome = "not_ready" -> ERROR_003
      [] OTHER -> RS_OK

\* Lines 81-100: what is left in ndbConnection once the driver's outcome is
\* known: the connection just constructed, on every outcome
Connect_Keep(conn, outcome) == conn

\* Lines 77-102, one section under connectionMutex: require, new
\* Ndb_cluster_connection, connect, wait_until_ready.  outcome is what the
\* driver does.
Connect_Conn(t, outcome) ==
    /\ At(t, "connect_conn")
    /\ CanLock(connectionMutex)
    /\ IF ndbConnection # nullptr
       THEN /\ Abort
            /\ UNCHANGED <<ndbConnection, connections, pc>>
       ELSE /\ connections < MaxConnections
            /\ connections' = connections + 1
            /\ ndbConnection' = Connect_Keep(connections + 1, outcome)
            /\ IF outcome = "ready"
               THEN Goto(t, "connect_flip") /\ returned' = NoReturn
               ELSE Connect_Return(t, Connect_Status(outcome))
            /\ UNCHANGED aborted
    /\ UNCHANGED <<stats, availableNdbObjects, allAvailableNdbObjects,
                   ndbObjects, reconnectionThread, connectionMutex,
                   connectionInfoMutex, held, local, calls, relStatus>>

\* Lines 103-109
Connect_Flip(t) ==
    /\ At(t, "connect_flip")
    /\ CanLock(connectionInfoMutex)
    /\ stats' = [stats EXCEPT !.connection_state = CONNECTED]
    /\ Connect_Return(t, RS_OK)
    /\ UNCHANGED <<ndbConnection, connections, availableNdbObjects,
                   allAvailableNdbObjects, ndbObjects, reconnectionThread,
                   connectionMutex, connectionInfoMutex, held, local,
                   calls, aborted, relStatus>>

\* ---- GetStats -----------------------------------------------------------
\* Lines 196-202 (the copy handed to the caller is not kept)
GetStats(t) ==
    /\ CanCall(t)
    /\ CanLock(connectionInfoMutex)
    /\ calls' = calls + 1
    /\ stats' = [stats EXCEPT !.ndb_objects_available = Len(availableNdbObjects)]
    /\ returned' = Ret(t, "GetStats", NoStatus, nullptr, FALSE, NoStatus)
    /\ UNCHANGED <<ndbConnection, connections, availableNdbObjects,
                   allAvailableNdbObjects, ndbObjects, reconnectionThread,
                   connectionMutex, connectionInfoMutex, pc, held, local, aborted, relStatus>>

\* ---- Shutdown -----------------------------------------------------------
\* Lines 208-219, called by a client: the locals, and for end the
\* is_shutting_down flag under connectionInfoMutex.
Shutdown_Begin(t, end) ==
    /\ CanCall(t)
    /\ CanLock(connectionInfoMutex)
    /\ calls' = calls + 1
    /\ stats' = IF end THEN [stats EXCEPT !.is_shutting_down = TRUE] ELSE stats
    /\ local' = [local EXCEPT ![t] = [end |-> end, timeElapsed |-> 0,
                                      allNDBObjectsCountedFor |-> FALSE]]
    /\ Goto(t, "sd_probe")
    /\ returned' = NoReturn
    /\ UNCHANGED <<ndbConnection, connections, availableNdbObjects,
                   allAvailableNdbObjects, ndbObjects, reconnectionThread,
                   connectionMutex, connectionInfoMutex, held, aborted, relStatus>>

\* Lines 220-243, one probe of the drain loop: the sample under
\* connectionMutex, then the break, or the sleep of one tick (500 ms) or
\* more and the test against the cap of DrainTicks ticks (120 s).
Shutdown_Probe(t) ==
    /\ At(t, "sd_probe")
    /\ CanLock(connectionMutex)
    /\ LET sizeGot == Len(availableNdbObjects)
           expectedSize == stats.ndb_objects_created
       IN IF expectedSize = sizeGot
          THEN /\ local' = [local EXCEPT ![t].allNDBObjectsCountedFor = TRUE,
                                         ![t].timeElapsed = 0]
               /\ Goto(t, "sd_state")
          ELSE \E now \in (local[t].timeElapsed + 1)..DrainTicks :
                 IF now < DrainTicks
                 THEN /\ local' = [local EXCEPT ![t].timeElapsed = now]
                      /\ UNCHANGED pc
                 ELSE /\ local' = [local EXCEPT ![t].timeElapsed = 0]
                      /\ Goto(t, "sd_state")
    /\ returned' = NoReturn
    /\ UNCHANGED <<stats, ndbConnection, connections, availableNdbObjects,
                   allAvailableNdbObjects, ndbObjects, reconnectionThread,
                   connectionMutex, connectionInfoMutex, held, calls, aborted, relStatus>>

\* Lines 245-257: the log line chosen by allNDBObjectsCountedFor, then the
\* state under connectionInfoMutex
Shutdown_SetState(t) ==
    /\ At(t, "sd_state")
    /\ CanLock(connectionInfoMutex)
    /\ stats' = [stats EXCEPT !.connection_state = DISCONNECTED]
    /\ Goto(t, "sd_delete")
    /\ returned' = NoReturn
    /\ UNCHANGED <<ndbConnection, connections, availableNdbObjects,
                   allAvailableNdbObjects, ndbObjects, reconnectionThread,
                   connectionMutex, connectionInfoMutex, held, local,
                   calls, aborted, relStatus>>

\* Lines 262-266: delete every Ndb in allAvailableNdbObjects (a deleted Ndb
\* is freed memory: nothing of it is left but that it is deleted)
DeleteAll(heap, all) ==
    [h \in DOMAIN heap |->
        IF \E i \in DOMAIN all : all[i] = h
        THEN NoNdb
        ELSE heap[h]]

\* Lines 271-274
Shutdown_ResetStats(st) ==
    [st EXCEPT !.ndb_objects_available = 0, !.ndb_objects_count = 0,
               !.ndb_objects_created = 0, !.ndb_objects_deleted = 0]

\* Line 265 deletes a pointer that is the address of no Ndb
DeletesNotAnNdb(all) == \E i \in DOMAIN all : all[i] = NotAnNdb

\* Lines 258-277.  The delete of a pointer that is the address of no Ndb is
\* undefined behaviour: it aborts the process (crash) or goes unnoticed.
Shutdown_DeleteObjects(t) ==
    /\ At(t, "sd_delete")
    /\ CanLock(connectionMutex)
    /\ CanLock(connectionInfoMutex)
    /\ \E crash \in BOOLEAN :
         /\ crash => DeletesNotAnNdb(allAvailableNdbObjects)
         /\ IF crash
            THEN /\ Abort
                 /\ UNCHANGED <<ndbObjects, availableNdbObjects,
                                allAvailableNdbObjects, stats, local, pc>>
            ELSE /\ ndbObjects' = DeleteAll(ndbObjects, allAvailableNdbObjects)
                 /\ availableNdbObjects' = <<>>
                 /\ allAvailableNdbObjects' = <<>>
                 /\ stats' = Shutdown_ResetStats(stats)
                 /\ local' = [local EXCEPT ![t].allNDBObjectsCountedFor = FALSE]
                 /\ Goto(t, "sd_conn")
                 /\ returned' = NoReturn
                 /\ UNCHANGED aborted
    /\ UNCHANGED <<ndbConnection, connections, reconnectionThread,
                   connectionMutex, connectionInfoMutex, held, calls, relStatus>>

\* Lines 278-289: delete ndbConnection; ndbConnection = nullptr
Shutdown_DeleteConnection(t) ==
    /\ At(t, "sd_conn")
    /\ CanLock(connectionMutex)
    /\ ndbConnection' = nullptr
    /\ Goto(t, "sd_end")
    /\ returned' = NoReturn
    /\ UNCHANGED <<stats, connections, availableNdbObjects,
                   allAvailableNdbObjects, ndbObjects, reconnectionThread,
                   connectionMutex, connectionInfoMutex, held, local,
                   calls, aborted, relStatus>>

\* Shutdown returns RS_OK (line 305): to the client, or to
\* ReconnectHandler, which goes on to Connect (lines 316-327).
Shutdown_Return(t) ==
    /\ pc' = [pc EXCEPT ![t] = IF t \in Clients THEN "idle" ELSE "h_connect"]
    /\ returned' = Ret(t, "Shutdown", RS_OK, nullptr, local[t].end, NoStatus)
    /\ local' = [local EXCEPT ![t] = InitLocal]

\* Lines 293-301: what Shutdown(true) does to the flags
Shutdown_Flags(st) ==
    [st EXCEPT !.is_shutdown = TRUE, !.is_shutting_down = FALSE]

\* Lines 290-306.  For end: the flags, free(connection_string), the thread
\* descriptor.  connection_string is already freed when is_shutdown is set
\* (a second Shutdown(true)): a double free, which either aborts the
\* process (crash) or goes unnoticed.
Shutdown_End(t) ==
    /\ At(t, "sd_end")
    /\ CanLock(connectionMutex)
    /\ CanLock(connectionInfoMutex)
    /\ \E crash \in BOOLEAN :
         /\ crash => local[t].end /\ stats.is_shutdown
         /\ IF crash
            THEN /\ Abort
                 /\ UNCHANGED <<stats, reconnectionThread, pc, local>>
            ELSE /\ IF local[t].end
                    THEN /\ stats' = Shutdown_Flags(stats)
                         /\ reconnectionThread' = nullptr
                    ELSE UNCHANGED <<stats, reconnectionThread>>
                 /\ Shutdown_Return(t)
                 /\ UNCHANGED aborted
    /\ UNCHANGED <<ndbConnection, connections, availableNdbObjects,
                   allAvailableNdbObjects, ndbObjects, connectionMutex,
                   connectionInfoMutex, held, calls, relStatus>>

\* ---- ReconnectHandler ---------------------------------------------------
\* Lines 311-316: require(is_reconnection_in_progress), then Shutdown(false)
\* up to its drain loop.
ReconnectHandler_Begin(w) ==
    /\ At(w, "h_begin")
    /\ CanLock(connectionInfoMutex)
    /\ IF stats.is_reconnection_in_progress
       THEN /\ local' = [local EXCEPT ![w] = [end |-> FALSE, timeElapsed |-> 0,
                                              allNDBObjectsCountedFor |-> FALSE]]
            /\ Goto(w, "sd_probe")
            /\ returned' = NoReturn
            /\ UNCHANGED aborted
       ELSE Abort /\ UNCHANGED <<local, pc>>
    /\ UNCHANGED <<stats, ndbConnection, connections, availableNdbObjects,
                   allAvailableNdbObjects, ndbObjects, reconnectionThread,
                   connectionMutex, connectionInfoMutex, held, calls, relStatus>>

\* A ReconnectHandler that clears the flag only when Connect succeeded
ReconnectHandler_Clear_OnSuccess(w) ==
    /\ ~aborted
    /\ pc[w] \in {"h_done", "h_failed"}
    /\ CanLock(connectionInfoMutex)
    /\ stats' = [stats EXCEPT !.is_reconnection_in_progress =
                                 IF pc[w] = "h_done" THEN FALSE ELSE @]
    /\ Goto(w, "idle")
    /\ returned' = Ret(w, "ReconnectHandler",
                       IF pc[w] = "h_done" THEN RS_OK ELSE SERVER_ERROR,
                       nullptr, FALSE, NoStatus)
    /\ UNCHANGED <<ndbConnection, connections, availableNdbObjects,
                   allAvailableNdbObjects, ndbObjects, reconnectionThread,
                   connectionMutex, connectionInfoMutex, held, local,
                   calls, aborted, relStatus>>

\* Lines 328-341: the flag is cleared whether Connect failed or not
ReconnectHandler_Clear(w) ==
    /\ ~aborted
    /\ pc[w] \in {"h_done", "h_failed"}
    /\ CanLock(connectionInfoMutex)
    /\ stats' = [stats EXCEPT !.is_reconnection_in_progress = FALSE]
    /\ Goto(w, "idle")
    /\ returned' = Ret(w, "ReconnectHandler",
                       IF pc[w] = "h_done" THEN RS_OK ELSE SERVER_ERROR,
                       nullptr, FALSE, NoStatus)
    /\ UNCHANGED <<ndbConnection, connections, availableNdbObjects,
                   allAvailableNdbObjects, ndbObjects, reconnectionThread,
                   connectionMutex, connectionInfoMutex, held, local,
                   calls, aborted, relStatus>>

\* ---- the program --------------------------------------------------------
Next ==
    \/ \E c \in Clients : GetNdbObject_Snapshot(c)
    \/ \E c \in Clients : GetNdbObject_Body(c)
    \/ \E c \in Clients : \E status \in ReleaseStatuses : ReturnNDBObjectToPool(c, status)
    \/ \E t \in Clients : Reconnect(t)
    \/ \E t \in Threads : Connect_Check(t)
    \/ \E t \in Threads :
         \E outcome \in {"ready", "connect_failed", "not_ready"} : Connect_Conn(t, outcome)
    \/ \E t \in Threads : Connect_Flip(t)
    \/ \E t \in Clients : GetStats(t)
    \/ \E t \in Clients : \E end \in BOOLEAN : Shutdown_Begin(t, end)
    \/ \E t \in Threads : Shutdown_Probe(t)
    \/ \E t \in Threads : Shutdown_SetState(t)
    \/ \E t \in Threads : Shutdown_DeleteObjects(t)
    \/ \E t \in Threads : Shutdown_DeleteConnection(t)
    \/ \E t \in Threads : Shutdown_End(t)
    \/ \E w \in Workers : ReconnectHandler_Begin(w)
    \/ \E w \in Workers : ReconnectHandler_Clear(w)

Spec == Init /\ [][Next]_vars

\* ---- the program while the link is lost and found again -------------------
\* The clients only call GetNdbObject and ReturnNDBObjectToPool (no Connect,
\* no Shutdown from the application), Ndb::init succeeds, and the
\* reconnection threads run ReconnectHandler.
ClientStep(c) ==
    \/ GetNdbObject_Snapshot(c)
    \/ GetNdbObject_Body(c) /\ returned'.status = RS_OK
    \/ \E status \in ReleaseStatuses : ReturnNDBObjectToPool(c, status)
    \/ pc[c] # "idle" /\ Reconnect(c)

WorkerStep(w) ==
    \/ ReconnectHandler_Begin(w)
    \/ Shutdown_Probe(w)
    \/ Shutdown_SetState(w)
    \/ Shutdown_DeleteObjects(w)
    \/ Shutdown_DeleteConnection(w)
    \/ Shutdown_End(w)
    \/ Connect_Check(w)
    \/ \E outcome \in {"ready", "connect_failed", "not_ready"} : Connect_Conn(w, outcome)
    \/ Connect_Flip(w)
    \/ ReconnectHandler_Clear(w)

NextRecovery ==
    \/ \E c \in Clients : ClientStep(c)
    \/ \E w \in Workers : WorkerStep(w)

\* Every thread is scheduled again and again: a client that can take a step
\* (start a GetNdbObject, finish it, return its Ndb) takes one, and so does a
\* reconnection thread; the cluster lets a connect attempt succeed if
\* attempts are made again and again.
FairRecovery ==
    /\ \A c \in Clients : WF_vars(ClientStep(c))
    /\ \A w \in Workers : WF_vars(WorkerStep(w))
    /\ SF_vars(\E w \in Workers : Connect_Conn(w, "ready"))

SpecRecovery == Init /\ [][NextRecovery]_vars /\ FairRecovery

\* ---- the program under an application that only connects ------------------
\* The application calls Connect once, on the pool as constructed, and
\* nothing else; the clients call GetNdbObject and ReturnNDBObjectToPool,
\* which call Reconnect; the reconnection threads run ReconnectHandler; the
\* driver connects at every attempt.
ApplicationStep ==
    \/ calls = 0 /\ Connect_Check(Application)
    \/ Connect_Conn(Application, "ready")
    \/ Connect_Flip(Application)

RequestStep(c) ==
    \/ GetNdbObject_Snapshot(c)
    \/ GetNdbObject_Body(c)
    \/ \E status \in ReleaseStatuses : ReturnNDBObjectToPool(c, status)
    \/ pc[c] # "idle" /\ Reconnect(c)

NextConnecting ==
    \/ ApplicationStep
    \/ \E c \in Clients : RequestStep(c)
    \/ \E w \in Workers : WorkerStep(w) /\ returned'.status \notin {ERROR_002, ERROR_003}

SpecConnecting == Init /\ [][NextConnecting]_vars

\* ---- the program in steady use ---------------------------------------------
\* The application connects the pool once; from then on the clients only
\* call GetNdbObject and ReturnNDBObjectToPool, with statuses that report no
\* lost link: no Shutdown, no Reconnect, no reconnection thread.
SteadyStep(c) ==
    \/ stats.connection_state = CONNECTED /\ GetNdbObject_Snapshot(c)
    \/ GetNdbObject_Body(c)
    \/ \E status \in ReleaseStatuses :
          ~TriggersReconnect(status) /\ ReturnNDBObjectToPool(c, status)

NextSteady ==
    \/ calls = 0 /\ Connect_Check(Application)
    \/ Connect_Conn(Application, "ready")
    \/ Connect_Flip(Application)
    \/ \E c \in Clients : SteadyStep(c)

SpecSteady == Init /\ [][NextSteady]_vars

\* ---- the mutexes ----------------------------------------------------------
\* The program at the granularity of the NdbMutex_Lock and NdbMutex_Unlock
\* calls.  Here pc[t] is the sequence of the calls thread t has still to make
\* in the method it is in (empty: in no method), connectionMutex and
\* connectionInfoMutex are the holders; which path a method takes is left
\* open, so the data the paths depend on stays as constructed.
Lock(m) == [op |-> "Lock", mutex |-> m]
Unlock(m) == [op |-> "Unlock", mutex |-> m]
ConnLock == "connectionMutex"
InfoLock == "connectionInfoMutex"

\* A section that takes connectionInfoMutex before connectionMutex
Locks_GetNdbObject_Body_InfoFirst ==
    <<Lock(InfoLock), Lock(ConnLock), Unlock(ConnLock), Unlock(InfoLock)>>

\* Lines 354-358 and 378-379
Locks_Reconnect ==
    <<Lock(ConnLock), Lock(InfoLock), Unlock(ConnLock), Unlock(InfoLock)>>

\* Lines 69-75, 78-101, 104-106.  path: "rejected" (line 72), "failed"
\* (lines 86, 98), "ready"
Locks_Connect(path) ==
    <<Lock(InfoLock), Unlock(InfoLock)>> \o
    (IF path = "rejected" THEN <<>>
     ELSE <<Lock(ConnLock), Unlock(ConnLock)>> \o
          (IF path = "ready" THEN <<Lock(InfoLock), Unlock(InfoLock)>> ELSE <<>>))

\* Lines 149-150 and 168-169
Locks_GetNdbObject_Body ==
    <<Lock(ConnLock), Lock(InfoLock), Unlock(ConnLock), Unlock(InfoLock)>>

\* Lines 124-128, then by the snapshot: "reject" (lines 132, 145),
\* "reconnect" (line 139), "proceed" (lines 148-171)
Locks_GetNdbObject(path) ==
    <<Lock(InfoLock), Unlock(InfoLock)>> \o
    (CASE path = "reject" -> <<>>
       [] path = "reconnect" -> Locks_Reconnect
       [] path = "proceed" -> Locks_GetNdbObject_Body)

\* Lines 177-179, then Reconnect (line 191) if the status asks for it
Locks_ReturnNDBObjectToPool(reconnect) ==
    <<Lock(ConnLock), Unlock(ConnLock)>> \o
    (IF reconnect THEN Locks_Reconnect ELSE <<>>)

\* Lines 197-200
Locks_GetStats == <<Lock(InfoLock), Unlock(InfoLock)>>

\* Lines 224-227, once per probe of the drain loop
Locks_Probes(probes) ==
    [i \in 1..(2 * probes) |-> IF i % 2 = 1 THEN Lock(ConnLock) ELSE Unlock(ConnLock)]

\* Lines 213-217, the drain loop, lines 254-256, 259-276, 279-288, 291-303
Locks_Shutdown(end, probes) ==
    (IF end THEN <<Lock(InfoLock), Unlock(InfoLock)>> ELSE <<>>) \o
    Locks_Probes(probes) \o
    <<Lock(InfoLock), Unlock(InfoLock)>> \o
    <<Lock(ConnLock), Lock(InfoLock), Unlock(ConnLock), Unlock(InfoLock)>> \o
    <<Lock(ConnLock), Unlock(ConnLock)>> \o
    <<Lock(ConnLock), Lock(InfoLock), Unlock(ConnLock), Unlock(InfoLock)>>

\* Lines 312-314, Shutdown(false), Connect, lines 329-331 or 338-340
Locks_ReconnectHandler(probes, path) ==
    <<Lock(InfoLock), Unlock(InfoLock)>> \o
    Locks_Shutdown(FALSE, probes) \o
    Locks_Connect(path) \o
    <<Lock(InfoLock), Unlock(InfoLock)>>

ConnectPaths == {"rejected", "failed", "ready"}
GetNdbObjectPaths == {"reject", "reconnect", "proceed"}

\* The sequences of calls a client's method makes
ClientCalls ==
    {Locks_Connect(path) : path \in ConnectPaths} \cup
    {Locks_GetNdbObject(path) : path \in GetNdbObjectPaths} \cup
    {Locks_ReturnNDBObjectToPool(reconnect) : reconnect \in BOOLEAN} \cup
    {Locks_GetStats, Locks_Reconnect} \cup
    {Locks_Shutdown(end, probes) : end \in BOOLEAN, probes \in 1..DrainTicks}

\* The sequences of calls of a reconnection thread (lines 344-349)
WorkerCalls ==
    {Locks_ReconnectHandler(probes, path) : probes \in 1..DrainTicks, path \in ConnectPaths}

Holder(m) == IF m = ConnLock THEN connectionMutex ELSE connectionInfoMutex

InitLocks ==
    /\ stats = InitStats
    /\ ndbConnection = nullptr
    /\ connections = 0
    /\ availableNdbObjects = <<>>
    /\ allAvailableNdbObjects = <<>>
    /\ ndbObjects = [h \in NdbAddresses |-> NoNdb]
    /\ reconnectionThread = nullptr
    /\ connectionMutex = NoThread
    /\ connectionInfoMutex = NoThread
    /\ pc = [t \in Threads |-> <<>>]
    /\ held = [t \in Clients |-> nullptr]
    /\ relStatus = [t \in Clients |-> NullStatus]
    /\ local = [t \in Threads |-> InitLocal]
    /\ calls = 0
    /\ returned = NoReturn
    /\ aborted = FALSE

\* Thread t enters a method
Enter(t) ==
    /\ pc[t] = <<>>
    /\ \E trace \in (IF t \in Clients THEN ClientCalls ELSE WorkerCalls) :
          pc' = [pc EXCEPT ![t] = trace]
    /\ UNCHANGED <<connectionMutex, connectionInfoMutex>>
    /\ UNCHANGED <<stats, ndbConnection, connections, availableNdbObjects,
                   allAvailableNdbObjects, ndbObjects, reconnectionThread,
                   held, relStatus, local, calls, returned, aborted>>

\* NdbMutex_Lock(m): blocks until the mutex is free
NdbMutex_Lock(t) ==
    /\ pc[t] # <<>>
    /\ Head(pc[t]).op = "Lock"
    /\ Holder(Head(pc[t]).mutex) = NoThread
    /\ IF Head(pc[t]).mutex = ConnLock
       THEN connectionMutex' = t /\ UNCHANGED connectionInfoMutex
       ELSE connectionInfoMutex' = t /\ UNCHANGED connectionMutex
    /\ pc' = [pc EXCEPT ![t] = Tail(@)]
    /\ UNCHANGED <<stats, ndbConnection, connections, availableNdbObjects,
                   allAvailableNdbObjects, ndbObjects, reconnectionThread,
                   held, relStatus, local, calls, returned, aborted>>

\* NdbMutex_Unlock(m)
NdbMutex_Unlock(t) ==
    /\ pc[t] # <<>>
    /\ Head(pc[t]).op = "Unlock"
    /\ IF Head(pc[t]).mutex = ConnLock
       THEN connectionMutex' = NoThread /\ UNCHANGED connectionInfoMutex
       ELSE connectionInfoMutex' = NoThread /\ UNCHANGED connectionMutex
    /\ pc' = [pc EXCEPT ![t] = Tail(@)]
    /\ UNCHANGED <<stats, ndbConnection, connections, availableNdbObjects,
                   allAvailableNdbObjects, ndbObjects, reconnectionThread,
                   held, relStatus, local, calls, returned, aborted>>

NextLocks ==
    \/ \E t \in Threads : Enter(t)
    \/ \E t \in Threads : NdbMutex_Lock(t)
    \/ \E t \in Threads : NdbMutex_Unlock(t)

SpecLocks == InitLocks /\ [][NextLocks]_vars

\* ---- properties ---------------------------------------------------------
Holders(h) == {c \in Clients : pc[c] = "holding" /\ held[c] = h}
AcquireReturned == returned.method = "GetNdbObject" /\ returned.status = RS_OK

\* C1 (exclusive ownership): an Ndb* that GetNdbObject has handed to a
\* client and that the client has not returned is held by that client alone,
\* and is not in availableNdbObjects, from where another GetNdbObject would
\* take it.
ExclusiveOwnership ==
    \A c \in Clients :
        pc[c] = "holding" =>
            /\ Holders(held[c]) = {c}
            /\ \A i \in DOMAIN availableNdbObjects : availableNdbObjects[i] # held[c]

\* C2: when GetNdbObject returns RS_OK, ndbConnection is not null and the
\* Ndb it returns is bound to ndbConnection.
AcquireBoundToCurrentConnection ==
    AcquireReturned =>
        /\ ndbConnection # nullptr
        /\ ~ndbObjects[returned.ndb].deleted
        /\ ndbObjects[returned.ndb].conn = ndbConnection

\* C3: Shutdown deletes no Ndb that a client still holds.
ShutdownSparesCheckedOut ==
    \A c \in Clients : pc[c] = "holding" => ~ndbObjects[held[c]].deleted

\* C4: once Shutdown(true) has returned (is_shutdown), a GetNdbObject that
\* starts is rejected with ERROR_034, and ndb_objects_count is 0 in every
\* state, whatever GetNdbObject calls were in flight when Shutdown returned.
AfterShutdownNoHandles ==
    stats.is_shutdown =>
        /\ stats.ndb_objects_count = 0
        /\ GetNdbObject_Decide(stats) = "reject_shutdown"

\* C5 (I5): is_shutdown implies ndbConnection is null, allAvailableNdbObjects
\* is empty and is_shutting_down is false.
I5 ==
    stats.is_shutdown =>
        /\ ndbConnection = nullptr
        /\ allAvailableNdbObjects = <<>>
        /\ ~stats.is_shutting_down

\* C6: once ReturnNDBObjectToPool has reported a lost link (its Reconnect
\* call was accepted), the pool gets back to connection_state CONNECTED with
\* the reconnection over, so that GetNdbObject proceeds again; a failed
\* attempt is followed by another, started by the next GetNdbObject.  (Or
\* the MaxConnections connections of the model are used up.)
LinkLossReported ==
    /\ returned.method = "ReturnNDBObjectToPool"
    /\ returned.reconnect = RS_OK
Recovered ==
    /\ stats.connection_state = CONNECTED
    /\ ~stats.is_reconnection_in_progress
    /\ GetNdbObject_Decide(stats) = "proceed"
LinkLossRecovery ==
    LinkLossReported ~> (Recovered \/ connections = MaxConnections)

\* C7: a Shutdown call in progress can always take its next step (the drain
\* loop ends by its cap even if an Ndb is never returned) and returns RS_OK;
\* when Shutdown(true) returns, is_shutdown is true and connection_state is
\* DISCONNECTED.
InShutdown(t) == pc[t] \in {"sd_probe", "sd_state", "sd_delete", "sd_conn", "sd_end"}
ShutdownTerminatesShutDown ==
    /\ \A t \in Threads :
          InShutdown(t) /\ ~aborted =>
              ENABLED (\/ Shutdown_Probe(t) \/ Shutdown_SetState(t)
                       \/ Shutdown_DeleteObjects(t) \/ Shutdown_DeleteConnection(t)
                       \/ Shutdown_End(t))
    /\ returned.method = "Shutdown" => returned.status = RS_OK
    /\ returned.method = "Shutdown" /\ returned.end =>
          stats.is_shutdown /\ stats.connection_state = DISCONNECTED

\* C8: when Connect returns a failure, connection_state is DISCONNECTED and
\* ndbConnection is null.
FailedConnectLeavesNothing ==
    returned.method = "Connect" /\ returned.status # RS_OK =>
        /\ stats.connection_state = DISCONNECTED
        /\ ndbConnection = nullptr

\* C9: the step in which GetNdbObject returns ERROR_004 (Ndb::init failed)
\* leaves the new Ndb deleted, and the counters and the two lists as they
\* were.
InitFailureLeavesNothing ==
    [][returned'.method = "GetNdbObject" /\ returned'.status = ERROR_004 =>
          /\ ndbObjects'[returned'.ndb].deleted
          /\ stats' = stats
          /\ allAvailableNdbObjects' = allAvailableNdbObjects
          /\ availableNdbObjects' = availableNdbObjects]_vars

\* C10: ReturnNDBObjectToPool appends the Ndb to availableNdbObjects whatever
\* the status; it goes on to call Reconnect exactly when the status is not
\* null, its http_code is not SUCCESS and its classification is
\* UnknownResultError, and then the Ndb is already in the list and
\* connectionMutex is released; otherwise it returns.
ReleaseAppendsThenReconnects ==
    [][\A c \in Clients :
          pc[c] = "holding" /\ pc'[c] # "holding" =>
          \A status \in ReleaseStatuses :
          ReturnNDBObjectToPool(c, status) =>
              /\ availableNdbObjects' = Append(availableNdbObjects, held[c])
              /\ pc'[c] = "ret_reconnect" <=>
                    (/\ ~status.isNull
                     /\ status.http_code # SUCCESS
                     /\ status.classification = UnknownResultError)
              /\ pc'[c] = "ret_reconnect" =>
                    /\ connectionMutex' = NoThread
                    /\ relStatus'[c] = status
              /\ pc'[c] # "ret_reconnect" =>
                    /\ pc'[c] = "idle"
                    /\ returned'.method = "ReturnNDBObjectToPool"
                    /\ returned'.reconnect = NoStatus]_vars
\* A client has returned an Ndb with a status that makes it call Reconnect,
\* behind an Ndb returned before
ReleaseAppendsThenReconnects_Witness ==
    \E c \in Clients :
        /\ pc[c] = "ret_reconnect"
        /\ relStatus[c].classification = UnknownResultError
        /\ Len(availableNdbObjects) = 2

\* C11: when the Connect of a reconnection thread (ReconnectHandler, after
\* its Shutdown(false)) sets connection_state to CONNECTED, ndb_objects_created
\* is 0 and availableNdbObjects and allAvailableNdbObjects are empty, whatever
\* GetNdbObject and ReturnNDBObjectToPool calls overlap the cycle.
ReconnectCycleResets ==
    /\ returned.method = "Connect"
    /\ returned.thread \in Workers
    /\ returned.status = RS_OK
    => /\ stats.ndb_objects_created = 0
       /\ availableNdbObjects = <<>>
       /\ allAvailableNdbObjects = <<>>

\* C12: at most one reconnection thread is live at any instant, and only
\* while is_reconnection_in_progress is true; a Reconnect call (public, from
\* GetNdbObject or from ReturnNDBObjectToPool) that finds the flag set
\* returns ERROR_036 and starts no thread, and a call that starts a thread
\* found the flag clear and no thread live.
LiveWorkers == {w \in Workers : pc[w] # "idle"}
AtMostOneWorker ==
    /\ Cardinality(LiveWorkers) <= 1
    /\ LiveWorkers # {} => stats.is_reconnection_in_progress
SingleReconnectWorker ==
    [][/\ AtMostOneWorker'
       /\ \A t \in Clients :
             Reconnect(t) =>
                 /\ stats.is_reconnection_in_progress =>
                       /\ returned'.reconnect = ERROR_036
                       /\ LiveWorkers' = LiveWorkers
                       /\ reconnectionThread' = reconnectionThread
                 /\ LiveWorkers' # LiveWorkers =>
                       /\ ~stats.is_reconnection_in_progress
                       /\ LiveWorkers = {}
                       /\ returned'.reconnect = RS_OK]_vars
\* A Reconnect call has just returned ERROR_036 while a reconnection thread
\* is live
SingleReconnectWorker_Witness ==
    /\ returned.reconnect = ERROR_036
    /\ Cardinality(LiveWorkers) = 1

\* C13 (elastic growth): while the pool stays CONNECTED with no Shutdown and
\* no reconnection, and each of the NumClients clients holds at most one Ndb
\* at a time, ndb_objects_created never exceeds NumClients, and whenever no
\* client holds an Ndb ndb_objects_created = |allAvailableNdbObjects| =
\* |availableNdbObjects|.
ElasticGrowthBound ==
    stats.connection_state = CONNECTED =>
        /\ stats.ndb_objects_created <= NumClients
        /\ (\A c \in Clients : pc[c] # "holding") =>
              /\ stats.ndb_objects_created = Len(allAvailableNdbObjects)
              /\ Len(allAvailableNdbObjects) = Len(availableNdbObjects)

\* C14 (I1): at every release of a mutex, ndbConnection is not null exactly
\* when connection_state is CONNECTED.
I1 == ndbConnection # nullptr <=> stats.connection_state = CONNECTED

\* C15 (I2): every Ndb* in availableNdbObjects is in allAvailableNdbObjects.
I2 ==
    \A i \in DOMAIN availableNdbObjects :
        \E j \in DOMAIN allAvailableNdbObjects :
            allAvailableNdbObjects[j] = availableNdbObjects[i]

\* C16 (I4): at every release of a mutex, ndb_objects_created -
\* ndb_objects_deleted = |allAvailableNdbObjects|: through GetNdbObject
\* reusing an Ndb, GetNdbObject creating one (whether Ndb::init succeeds or
\* fails) and Shutdown deleting all of them and resetting the counters.
I4 ==
    stats.ndb_objects_created - stats.ndb_objects_deleted = Len(allAvailableNdbObjects)
\* GetNdbObject has just returned ERROR_004 (Ndb::init failed) with an Ndb
\* counted and listed, after a Shutdown that reset the counters
I4_Witness ==
    /\ returned.method = "GetNdbObject"
    /\ returned.status = ERROR_004
    /\ stats.ndb_objects_created = 1
    /\ Len(allAvailableNdbObjects) = 1
    /\ connections = 2

\* C17 (lock order): no thread asks for connectionMutex while it holds
\* connectionInfoMutex, nor for a mutex it holds, so a thread that holds both
\* took connectionMutex first; and no two threads wait for a mutex the other
\* holds.
Waits(t, m) == pc[t] # <<>> /\ Head(pc[t]) = Lock(m)
LockOrder ==
    /\ \A t \in Threads :
          /\ Waits(t, ConnLock) => connectionInfoMutex # t /\ connectionMutex # t
          /\ Waits(t, InfoLock) => connectionInfoMutex # t
    /\ \A t, u \in Threads :
          ~(/\ Waits(t, ConnLock) /\ connectionMutex = u
            /\ Waits(u, InfoLock) /\ connectionInfoMutex = t)
\* A thread has unlocked connectionMutex and still holds
\* connectionInfoMutex, while another thread has taken connectionMutex and
\* waits for connectionInfoMutex
LockOrder_Witness ==
    \E t, u \in Threads :
        /\ t # u
        /\ connectionInfoMutex = t
        /\ pc[t] # <<>> /\ Head(pc[t]) = Unlock(InfoLock)
        /\ connectionMutex = u
        /\ Waits(u, InfoLock)

\* C18: once a reconnection thread has been started (with
\* is_reconnection_in_progress set), the flag is eventually cleared, whether
\* the thread's Connect succeeds, fails or is rejected.  (Or the thread is
\* at the construction of a connection beyond the MaxConnections of the
\* model.)
WorkerSpawned == \E w \in Workers : pc[w] # "idle"
OutOfConnections ==
    /\ connections = MaxConnections
    /\ \E w \in Workers : pc[w] = "connect_conn"
FlagEventuallyCleared ==
    WorkerSpawned ~> (~stats.is_reconnection_in_progress \/ OutOfConnections)
\* A ReconnectHandler whose Connect failed has returned with the flag
\* cleared
FlagEventuallyCleared_Witness ==
    /\ returned.method = "ReconnectHandler"
    /\ returned.status = SERVER_ERROR
    /\ ~stats.is_reconnection_in_progress

\* C19: when the drain loop of Shutdown ended because
\* availableNdbObjects.size() was ndb_objects_created (no timeout), the
\* teardown that follows deletes no Ndb that a client holds, whatever
\* GetNdbObject ran between the probe and the teardown.
DrainedTeardownSparesHeld ==
    [][\A t \in Threads :
          /\ pc[t] = "sd_delete"
          /\ local[t].allNDBObjectsCountedFor
          /\ pc'[t] = "sd_conn"
          => \A c \in Clients :
                pc[c] = "holding" /\ ~ndbObjects[held[c]].deleted =>
                    ~ndbObjects'[held[c]].deleted]_vars

\* C20: the require of Connect at line 74 (connection_state is not
\* CONNECTED), the require of Connect at line 79 (ndbConnection is null) and
\* the require of ReconnectHandler at line 313 (is_reconnection_in_progress)
\* hold whenever a thread evaluates them, when the application calls Connect
\* only on a pool it sees DISCONNECTED and the other threads call
\* GetNdbObject and ReturnNDBObjectToPool.
RequiresHold ==
    [][\A t \in Threads :
          /\ Connect_Check(t) /\ ~(stats.is_shutdown \/ stats.is_shutting_down) =>
                stats.connection_state # CONNECTED
          /\ (\E outcome \in {"ready", "connect_failed", "not_ready"} :
                 Connect_Conn(t, outcome)) =>
                ndbConnection = nullptr
          /\ ReconnectHandler_Begin(t) =>
                stats.is_reconnection_in_progress]_vars

====
